---- MODULE Spec2Model ----
(***************************************************************************)
(* Model of the GPIO monitoring engine of io-Monitor                       *)
(* (src/src/gpio_monitor.py, class GPIOMonitor).                           *)
(*                                                                         *)
(* Time is the reading of datetime.now() in abstract clock units; an hour  *)
(* is UnitsPerHour units.  The clock is assumed not to run backwards.      *)
(* Python dicts are functions whose DOMAIN is the set of keys present, so  *)
(* that the key-creating reads of a defaultdict are visible.               *)
(***************************************************************************)
EXTENDS Integers, Sequences, FiniteSets, TLC

\* ---------------------------------------------------------------- bounds
MaxTicks == 2
MaxTime == 2
UnitsPerHour == 1

\* ------------------------------------------------------ program constants
\* deque(maxlen=1000)
HistoryMaxLen == 1000
\* list(...)[-50:] in get_pin_status
StatusHistoryLen == 50

\* The lines the configuration asks for ('pins_to_monitor').
ConfigPins == <<5, 17>>
\* The lines a configuration may name, for the construction model.
AllPins == {5, 9, 17}
Levels == {0, 1}
\* What one GPIO.input(pin) call produces: <<level>>, or <<>> when it raises.
ReadError == <<>>
ReadOk(level) == <<level>>
\* The hours arguments tried on get_pin_history.
HoursTried == {0, 1}

VARIABLES
    GPIO_AVAILABLE,          \* module global: RPi.GPIO could be imported
    pins_to_monitor,         \* list of monitored lines
    pin_states,              \* dict line -> level
    transition_counts,       \* defaultdict(int)
    last_transition_time,    \* dict line -> datetime
    high_duration_history,   \* defaultdict(deque(maxlen=1000))
    current_high_start,      \* dict line -> datetime
    now,                     \* the clock datetime.now() reads
    ticks,                   \* iterations of _monitor_loop started so far
    op,                      \* the last operation, its inputs and its result
    edge_log,                \* per line, every edge fed to the tracker: <<old, new, time>>
    reset_mark,              \* per line, Len(edge_log) at the last reset_counters()
    ctor,                    \* construction: pc ("setup", "done" or "raised"), the
                             \* requested lines, the lines whose hardware setup
                             \* fails, the position i of the setup loop's iterator,
                             \* and whether self.logger is set yet
    mon,                     \* the sampling thread: where it is in _monitor_loop, its locals
    rdr,                     \* a thread calling get_pin_status: its position, its locals
    rst,                     \* a thread calling reset_counters: its position
    config_file,             \* what open(config_file) finds on disk
    config,                  \* self.config, the value _load_config returned
    update_interval,         \* self.update_interval, in milliseconds
    history_duration,        \* self.history_duration, in minutes
    pin_labels,              \* self.pin_labels
    monitoring,              \* self.monitoring, the flag _monitor_loop tests
    monitor_thread,          \* self.monitor_thread: <<>> for None, or <<thread id>>
    loops,                   \* the sampling threads created so far, each with its
                             \* position in _monitor_loop and its current_time
    caller,                  \* the thread that calls start_monitoring and
                             \* stop_monitoring, one call after the other
    update_running,          \* WebServer.update_running
    hb,                      \* the thread running _background_update_loop: its
                             \* position and its two counters
    sink,                    \* what socketio.server.emit does now: "ok", "failing"
                             \* (it raises) or "blocked" (it does not return)
    notified                 \* the change notifications handed to a state-change
                             \* listener so far

vars == <<GPIO_AVAILABLE, pins_to_monitor, pin_states, transition_counts,
          last_transition_time, high_duration_history, current_high_start,
          now, ticks, op, edge_log, reset_mark, ctor, mon, rdr, rst,
          config_file, config, update_interval, history_duration, pin_labels,
          monitoring, monitor_thread, loops, caller,
          update_running, hb, sink, notified>>

threads == <<mon, rdr, rst>>
\* The configuration, the start/stop machinery and the web server's side.
settings == <<config_file, config, update_interval, history_duration, pin_labels>>
lifecycle == <<monitoring, monitor_thread, loops, caller>>
web == <<update_running, hb, sink, notified>>
service == <<settings, lifecycle, web>>

\* ------------------------------------------------------------ dict helpers
Get(d, k, default) == IF k \in DOMAIN d THEN d[k] ELSE default
Put(d, k, v) == [x \in (DOMAIN d) \cup {k} |-> IF x = k THEN v ELSE d[x]]
Del(d, k) == [x \in (DOMAIN d) \ {k} |-> d[x]]
EmptyDict == [x \in {} |-> 0]
\* dict.get(k): <<v>> when present, <<>> for None.
Opt(d, k) == IF k \in DOMAIN d THEN <<d[k]>> ELSE <<>>

\* The elements of a list, and a list without the first occurrence of x.
Elems(s) == {s[i] : i \in 1..Len(s)}
RECURSIVE ListRemove(_, _)
ListRemove(s, x) ==
    IF s = <<>> THEN <<>>
    ELSE IF Head(s) = x THEN Tail(s)
    ELSE <<Head(s)>> \o ListRemove(Tail(s), x)

\* datetime.isoformat() and datetime.fromisoformat(): a string form of the
\* instant, and its parse.
isoformat(t) == [iso |-> t]
fromisoformat(s) == s.iso
\* timedelta(hours=h)
timedelta_hours(h) == h * UnitsPerHour

\* ---------------------------------------------------- the monitor's state
\* The five maps of a GPIOMonitor as one value, so that the statements of
\* _monitor_loop compose.
St == [pin_states |-> pin_states,
       transition_counts |-> transition_counts,
       last_transition_time |-> last_transition_time,
       high_duration_history |-> high_duration_history,
       current_high_start |-> current_high_start]

Install(S) ==
    /\ pin_states' = S.pin_states
    /\ transition_counts' = S.transition_counts
    /\ last_transition_time' = S.last_transition_time
    /\ high_duration_history' = S.high_duration_history
    /\ current_high_start' = S.current_high_start

\* Mutant: a plain list, which never evicts.
DequeAppend_Unbounded(q, e) == Append(q, e)

\* deque.append on a deque(maxlen=HistoryMaxLen)
DequeAppend(q, e) ==
    IF Len(q) >= HistoryMaxLen THEN Append(Tail(q), e) ELSE Append(q, e)

\* self.pin_states[pin] = new_state
SetPinState(S, pin, new_state) ==
    [S EXCEPT !.pin_states = Put(@, pin, new_state)]

\* Mutant: the counter is bumped twice per edge.
IncrCount_Twice(S, pin) ==
    [S EXCEPT !.transition_counts = Put(@, pin, Get(@, pin, 0) + 2)]

\* self.transition_counts[pin] += 1
IncrCount(S, pin) ==
    [S EXCEPT !.transition_counts = Put(@, pin, Get(@, pin, 0) + 1)]

\* self.last_transition_time[pin] = current_time
SetLastTransition(S, pin, current_time) ==
    [S EXCEPT !.last_transition_time = Put(@, pin, current_time)]

\* Mutant: the duration is measured from last_transition_time, which the
\* edge has already overwritten.
FallingEdge_FromLastTransition(S, pin, current_time) ==
    IF pin \in DOMAIN S.current_high_start
    THEN LET duration == current_time - S.last_transition_time[pin]
             entry == [timestamp |-> isoformat(current_time), duration |-> duration]
         IN [S EXCEPT !.high_duration_history =
                          Put(@, pin, Append(Get(@, pin, <<>>), entry)),
                      !.current_high_start = Del(@, pin)]
    ELSE S

\* self.high_duration_history[pin].append({'timestamp': ..., 'duration': ...})
AppendInterval(S, pin, current_time, duration) ==
    LET entry == [timestamp |-> isoformat(current_time), duration |-> duration]
    IN  [S EXCEPT !.high_duration_history =
                      Put(@, pin, DequeAppend(Get(@, pin, <<>>), entry))]

\* del self.current_high_start[pin]
DelPending(S, pin) == [S EXCEPT !.current_high_start = Del(@, pin)]

\* Mutant: the falling edge records an interval whether or not a start is
\* pending, of length 0 when there is none.
FallingEdge_AlwaysRecords(S, pin, current_time) ==
    LET duration == current_time - Get(S.current_high_start, pin, current_time)
    IN  DelPending(AppendInterval(S, pin, current_time, duration), pin)

\* The falling-edge branch: record the completed high interval, if a start
\* is pending, and drop the pending start.
FallingEdge(S, pin, current_time) ==
    IF pin \in DOMAIN S.current_high_start
    THEN LET duration == current_time - S.current_high_start[pin]
         IN  DelPending(AppendInterval(S, pin, current_time, duration), pin)
    ELSE S

\* Mutant: the rising edge records no pending start.
RisingEdge_NoStart(S, pin, current_time) == S

\* The rising-edge branch.
RisingEdge(S, pin, current_time) ==
    [S EXCEPT !.current_high_start = Put(@, pin, current_time)]

\* The body of `if new_state != old_state:`.
ProcessEdge(S, pin, old_state, new_state, current_time) ==
    LET S1 == SetPinState(S, pin, new_state)
        S2 == IncrCount(S1, pin)
        S3 == SetLastTransition(S2, pin, current_time)
    IN  IF old_state = 1 /\ new_state = 0 THEN FallingEdge(S3, pin, current_time)
        ELSE IF old_state = 0 /\ new_state = 1 THEN RisingEdge(S3, pin, current_time)
        ELSE S3

\* Mutant: every successful read is processed as a transition, changed or not.
ProcessPin_Unfiltered(S, pin, read, current_time) ==
    LET old_state == Get(S.pin_states, pin, 0)
    IN  IF read = ReadError THEN S
        ELSE ProcessEdge(S, pin, old_state, read[1], current_time)

\* One iteration of `for pin in self.pins_to_monitor` with the value the
\* read produced: a failed read is `continue`.
ProcessPin(S, pin, read, current_time) ==
    LET old_state == Get(S.pin_states, pin, 0)
    IN  IF read = ReadError THEN S
        ELSE IF read[1] # old_state
             THEN ProcessEdge(S, pin, old_state, read[1], current_time)
             ELSE S

\* Mutant: a failed read ends the for loop (break instead of continue).
RECURSIVE ProcessPins_Break(_, _, _, _)
ProcessPins_Break(S, pins, reads, current_time) ==
    IF pins = <<>> \/ reads[Head(pins)] = ReadError THEN S
    ELSE ProcessPins_Break(ProcessPin(S, Head(pins), reads[Head(pins)], current_time),
                           Tail(pins), reads, current_time)

\* The whole for loop of one tick over the list `pins`.
RECURSIVE ProcessPins(_, _, _, _)
ProcessPins(S, pins, reads, current_time) ==
    IF pins = <<>> THEN S
    ELSE ProcessPins(ProcessPin(S, Head(pins), reads[Head(pins)], current_time),
                     Tail(pins), reads, current_time)

\* What the line source can return for a line at level old: the hardware
\* returns either level or fails; the simulation keeps or flips the level.
ReadOutcomes(old) ==
    IF GPIO_AVAILABLE THEN {ReadOk(l) : l \in Levels} \cup {ReadError}
    ELSE {ReadOk(old), ReadOk(1 - old)}

\* The edges a tick with these reads feeds to the tracker, appended to the log.
LogEdges(reads, current_time) ==
    [p \in DOMAIN edge_log |->
        IF p \in DOMAIN reads /\ reads[p] # ReadError /\ reads[p][1] # Get(pin_states, p, 0)
        THEN Append(edge_log[p], <<Get(pin_states, p, 0), reads[p][1], current_time>>)
        ELSE edge_log[p]]

\* ------------------------------------------------------------- the queries
\* list(q)[-n:]
LastN(q, n) == IF Len(q) <= n THEN q ELSE SubSeq(q, Len(q) - n + 1, Len(q))

\* The entry get_pin_status builds for one line at clock reading current_time.
PinStatusEntry(S, pin, current_time) ==
    LET current_high_duration ==
            IF pin \in DOMAIN S.current_high_start /\ Opt(S.pin_states, pin) = <<1>>
            THEN current_time - S.current_high_start[pin]
            ELSE 0
    IN  [state |-> Get(S.pin_states, pin, 0),
         label |-> <<"GPIO", pin>>,
         transitions |-> Get(S.transition_counts, pin, 0),
         last_transition |-> isoformat(Get(S.last_transition_time, pin, current_time)),
         current_high_duration |-> current_high_duration,
         high_duration_history |-> LastN(Get(S.high_duration_history, pin, <<>>),
                                         StatusHistoryLen)]

\* get_pin_status(): the snapshot, keyed by line.
get_pin_status(S, pins, current_time) ==
    [pin \in Elems(pins) |-> PinStatusEntry(S, pin, current_time)]

\* Reading self.transition_counts[pin] and self.high_duration_history[pin],
\* both defaultdicts, creates the missing keys.
RECURSIVE TouchDefaults(_, _)
TouchDefaults(S, pins) ==
    IF pins = <<>> THEN S
    ELSE TouchDefaults(
            [S EXCEPT !.transition_counts = Put(@, Head(pins), Get(@, Head(pins), 0)),
                      !.high_duration_history = Put(@, Head(pins), Get(@, Head(pins), <<>>))],
            Tail(pins))

\* get_transition_summary()
get_transition_summary(S) == S.transition_counts

\* Mutant: the filter compares the start of the interval with the cutoff.
get_pin_history_ByStart(S, pin, hours, t) ==
    IF pin \notin DOMAIN S.high_duration_history THEN <<>>
    ELSE LET cutoff_time == t - timedelta_hours(hours)
             Keep(entry) == fromisoformat(entry.timestamp) - entry.duration >= cutoff_time
         IN  SelectSeq(S.high_duration_history[pin], Keep)

\* Mutant: the filter is strict (entry_time > cutoff_time).
get_pin_history_Strict(S, pin, hours, t) ==
    IF pin \notin DOMAIN S.high_duration_history THEN <<>>
    ELSE LET cutoff_time == t - timedelta_hours(hours)
             Keep(entry) == fromisoformat(entry.timestamp) > cutoff_time
         IN  SelectSeq(S.high_duration_history[pin], Keep)

\* get_pin_history(pin, hours) at clock reading t.
get_pin_history(S, pin, hours, t) ==
    IF pin \notin DOMAIN S.high_duration_history THEN <<>>
    ELSE LET cutoff_time == t - timedelta_hours(hours)
             Keep(entry) == fromisoformat(entry.timestamp) >= cutoff_time
         IN  SelectSeq(S.high_duration_history[pin], Keep)

\* reset_counters(): clear the counter map, then clear each monitored
\* line's deque (creating it when missing).
RECURSIVE ClearHistories(_, _)
ClearHistories(h, pins) ==
    IF pins = <<>> THEN h
    ELSE ClearHistories(Put(h, Head(pins), <<>>), Tail(pins))

\* Mutant: reset clears the histories and leaves the counters.
reset_counters_KeepsCounts(S, pins) ==
    [S EXCEPT !.high_duration_history = ClearHistories(@, pins)]

\* Mutant: reset also forgets the pending starts.
reset_counters_ClearsPending(S, pins) ==
    [S EXCEPT !.transition_counts = EmptyDict,
              !.high_duration_history = ClearHistories(@, pins),
              !.current_high_start = EmptyDict]

reset_counters(S, pins) ==
    [S EXCEPT !.transition_counts = EmptyDict,
              !.high_duration_history = ClearHistories(@, pins)]

\* ------------------------------------------------------------ the threads
\* The sampling thread between ticks; i is the position of the for loop's
\* iterator, tmp a value read and not yet used.
MonIdle ==
    [pc |-> "loop", i |-> 0, pin |-> 0, old_state |-> 0, new_state |-> 0,
     current_time |-> 0, tmp |-> 0]
\* No get_pin_status call in progress; calls counts the calls begun.
RdrIdle ==
    [pc |-> "idle", calls |-> 0, i |-> 0, pin |-> 0, current_time |-> 0,
     has_start |-> <<>>, level |-> <<>>, entry |-> <<>>, status |-> EmptyDict]
\* No reset_counters call in progress.
RstIdle == [pc |-> "idle", calls |-> 0, i |-> 0]

ThreadsIdle == mon = MonIdle /\ rdr = RdrIdle /\ rst = RstIdle

\* ------------------------------------------------------- the configuration
\* list(range(2, 28))
RECURSIVE range(_, _)
range(a, b) == IF a >= b THEN <<>> ELSE <<a>> \o range(a + 1, b)
DefaultPins == range(2, 28)
\* 'update_interval': 0.1 (seconds), here in milliseconds
DefaultInterval == 100
\* 'history_duration_minutes': 60
DefaultHistoryMinutes == 60

\* A parsed JSON value: its type, and for an object the value under each of
\* the four keys the constructor asks for, <<v>> when the key is present and
\* <<>> when it is not.
JsonObject(pins, interval, minutes, labels) ==
    [type |-> "object", pins_to_monitor |-> pins, update_interval |-> interval,
     history_duration_minutes |-> minutes, pin_labels |-> labels]
\* A JSON document that parses to something other than an object, such as [].
JsonArray ==
    [type |-> "array", pins_to_monitor |-> <<>>, update_interval |-> <<>>,
     history_duration_minutes |-> <<>>, pin_labels |-> <<>>]
\* The dict the except branch of _load_config returns.
DefaultConfig ==
    JsonObject(<<DefaultPins>>, <<DefaultInterval>>, <<DefaultHistoryMinutes>>,
               <<EmptyDict>>)

\* The file at config_file: absent, not JSON at all, or a JSON document.
MissingFile == [kind |-> "missing", content |-> JsonArray]
InvalidJsonFile == [kind |-> "invalid_json", content |-> JsonArray]
JsonFile(value) == [kind |-> "json", content |-> value]

\* _load_config: open() raises FileNotFoundError for a missing file, which
\* the except clause catches; json.load raises JSONDecodeError for text that
\* is not JSON, which nothing catches.
LoadRaises(file) == file.kind = "invalid_json"

\* What _load_config returns when it returns.
load_config(file) ==
    IF file.kind = "missing" THEN DefaultConfig ELSE file.content

\* dict.get(key, default) on a parsed object
ConfigGet(value, default) == IF value = <<>> THEN default ELSE value[1]

\* The configuration a monitor with the lines `pins` was constructed from,
\* the other keys left to their defaults.
ConfiguredFor(pins) ==
    /\ config_file = JsonFile(JsonObject(<<pins>>, <<>>, <<>>, <<>>))
    /\ config = JsonObject(<<pins>>, <<>>, <<>>, <<>>)
    /\ update_interval = DefaultInterval
    /\ history_duration = DefaultHistoryMinutes
    /\ pin_labels = EmptyDict

\* ------------------------------------------------------- start and stop
\* A sampling thread as the monitor's own record of it: where it is in
\* _monitor_loop and the current_time of its tick.
LoopAt(pc, t) == [pc |-> pc, current_time |-> t]
\* The thread that calls start_monitoring() and stop_monitoring().
CallerIdle == [pc |-> "idle", calls |-> 0]
\* The thread of _background_update_loop before start_background_updates():
\* its position, its two counters and the snapshot it is about to send; and,
\* for the properties, whether it is in its first iteration (first), whether
\* this iteration has called emit for 'gpio_update' (attempted), the event
\* whose emit raised in this iteration (raised), whether the previous
\* iteration ended in the except block on a 'system_update'
\* (after_system_failure), and whether any emit has raised so far (failed).
HbIdle == [pc |-> "none", gpio_update_counter |-> 0, system_update_counter |-> 0,
           gpio_data |-> <<>>, first |-> TRUE, attempted |-> FALSE,
           raised |-> "none", after_system_failure |-> FALSE, failed |-> FALSE]

\* The rest of the service around a monitor: constructed from a
\* configuration naming its lines; the sampling loop running or not yet
\* started; no background updates; no notification delivered.
ServiceState(running) ==
    /\ ConfiguredFor(pins_to_monitor)
    /\ monitoring = running
    /\ monitor_thread = IF running THEN <<1>> ELSE <<>>
    /\ loops = IF running THEN <<LoopAt("while", 0)>> ELSE <<>>
    /\ caller = CallerIdle
    /\ update_running = FALSE
    /\ hb = HbIdle
    /\ sink = "ok"
    /\ notified = <<>>

\* ------------------------------------------------- operations, one at a time
Constructed == ctor.pc = "done"

\* The clock moves on.
Advance ==
    /\ now < MaxTime
    /\ now' = now + 1
    /\ op' = [name |-> "clock"]
    /\ UNCHANGED <<GPIO_AVAILABLE, pins_to_monitor, pin_states, transition_counts,
                   last_transition_time, high_duration_history, current_high_start,
                   ticks, edge_log, reset_mark, ctor>>
    /\ UNCHANGED threads
    /\ UNCHANGED service

\* Mutant: the tick publishes each change itself, on the sampling thread, and
\* so waits for the sink.
Tick_PublishesInline ==
    /\ Constructed
    /\ monitoring
    /\ ticks < MaxTicks
    /\ sink # "blocked"
    /\ \E reads \in [Elems(pins_to_monitor) -> {ReadOk(l) : l \in Levels} \cup {ReadError}] :
          /\ \A p \in Elems(pins_to_monitor) :
                reads[p] \in ReadOutcomes(Get(pin_states, p, 0))
          /\ Install(ProcessPins(St, pins_to_monitor, reads, now))
          /\ edge_log' = LogEdges(reads, now)
          /\ op' = [name |-> "tick", reads |-> reads, time |-> now]
    /\ ticks' = ticks + 1
    /\ UNCHANGED <<GPIO_AVAILABLE, pins_to_monitor, now, reset_mark, ctor>>
    /\ UNCHANGED threads
    /\ UNCHANGED service

\* One iteration of the while loop of _monitor_loop: every monitored line
\* is read and processed, in list order.
Tick ==
    /\ Constructed
    /\ monitoring
    /\ ticks < MaxTicks
    /\ \E reads \in [Elems(pins_to_monitor) -> {ReadOk(l) : l \in Levels} \cup {ReadError}] :
          /\ \A p \in Elems(pins_to_monitor) :
                reads[p] \in ReadOutcomes(Get(pin_states, p, 0))
          /\ Install(ProcessPins(St, pins_to_monitor, reads, now))
          /\ edge_log' = LogEdges(reads, now)
          /\ op' = [name |-> "tick", reads |-> reads, time |-> now]
    /\ ticks' = ticks + 1
    /\ UNCHANGED <<GPIO_AVAILABLE, pins_to_monitor, now, reset_mark, ctor>>
    /\ UNCHANGED threads
    /\ UNCHANGED service

ResetCounters ==
    /\ Constructed
    /\ Install(reset_counters(St, pins_to_monitor))
    /\ reset_mark' = [p \in DOMAIN edge_log |-> Len(edge_log[p])]
    /\ op' = [name |-> "reset_counters"]
    /\ UNCHANGED <<GPIO_AVAILABLE, pins_to_monitor, now, ticks, edge_log, ctor>>
    /\ UNCHANGED threads
    /\ UNCHANGED service

GetPinStatus ==
    /\ Constructed
    /\ Install(TouchDefaults(St, pins_to_monitor))
    /\ op' = [name |-> "get_pin_status", time |-> now,
              result |-> get_pin_status(St, pins_to_monitor, now)]
    /\ UNCHANGED <<GPIO_AVAILABLE, pins_to_monitor, now, ticks, edge_log, reset_mark, ctor>>
    /\ UNCHANGED threads
    /\ UNCHANGED service

GetTransitionSummary ==
    /\ Constructed
    /\ op' = [name |-> "get_transition_summary", result |-> get_transition_summary(St)]
    /\ UNCHANGED <<GPIO_AVAILABLE, pins_to_monitor, pin_states, transition_counts,
                   last_transition_time, high_duration_history, current_high_start,
                   now, ticks, edge_log, reset_mark, ctor>>
    /\ UNCHANGED threads
    /\ UNCHANGED service

GetPinHistory ==
    /\ Constructed
    /\ \E pin \in AllPins, hours \in HoursTried :
          op' = [name |-> "get_pin_history", pin |-> pin, hours |-> hours, time |-> now,
                 result |-> get_pin_history(St, pin, hours, now)]
    /\ UNCHANGED <<GPIO_AVAILABLE, pins_to_monitor, pin_states, transition_counts,
                   last_transition_time, high_duration_history, current_high_start,
                   now, ticks, edge_log, reset_mark, ctor>>
    /\ UNCHANGED threads
    /\ UNCHANGED service

\* The state the constructor leaves when no line fails to initialise: the
\* levels are the first hardware reads, or random in simulation.
CtorDone(requested) ==
    [pc |-> "done", requested |-> requested, fails |-> {}, i |-> Len(requested),
     logger |-> TRUE]

Init ==
    /\ GPIO_AVAILABLE \in BOOLEAN
    /\ pins_to_monitor = ConfigPins
    /\ pin_states \in [Elems(ConfigPins) -> Levels]
    /\ transition_counts = EmptyDict
    /\ last_transition_time = [p \in Elems(ConfigPins) |-> 0]
    /\ high_duration_history = EmptyDict
    /\ current_high_start = EmptyDict
    /\ now = 0
    /\ ticks = 0
    /\ op = [name |-> "init"]
    /\ edge_log = [p \in Elems(ConfigPins) |-> <<>>]
    /\ reset_mark = [p \in Elems(ConfigPins) |-> 0]
    /\ ctor = CtorDone(ConfigPins)
    /\ ThreadsIdle
    /\ ServiceState(TRUE)

Next ==
    \/ Advance
    \/ Tick
    \/ ResetCounters
    \/ GetPinStatus
    \/ GetTransitionSummary
    \/ GetPinHistory

Spec == Init /\ [][Next]_vars

\* ------------------------------------------------------------ construction
\* The lists of distinct lines over a set: what a configuration may request.
RECURSIVE ListsOver(_)
ListsOver(pins) ==
    {<<>>} \cup UNION {{<<p>> \o l : l \in ListsOver(pins \ {p})} : p \in pins}

\* __init__ up to the call of _setup_gpio() or _setup_simulation(): the maps
\* are empty and self.logger is not assigned yet.
InitSetup ==
    /\ GPIO_AVAILABLE \in BOOLEAN
    /\ pins_to_monitor \in ListsOver(AllPins)
    /\ pin_states = EmptyDict
    /\ transition_counts = EmptyDict
    /\ last_transition_time = EmptyDict
    /\ high_duration_history = EmptyDict
    /\ current_high_start = EmptyDict
    /\ now = 0
    /\ ticks = 0
    /\ op = [name |-> "init"]
    /\ edge_log = [p \in AllPins |-> <<>>]
    /\ reset_mark = [p \in AllPins |-> 0]
    /\ \E fails \in SUBSET AllPins :
          /\ ~GPIO_AVAILABLE => fails = {}
          /\ ctor = [pc |-> "setup", requested |-> pins_to_monitor, fails |-> fails,
                     i |-> 0, logger |-> FALSE]
    /\ ThreadsIdle
    /\ ServiceState(FALSE)

\* One iteration of the for loop of _setup_gpio. The list iterator yields
\* the element at its position in the list as it is now, and moves on by one.
\* A line whose GPIO.setup or GPIO.input raises runs the except block:
\* self.logger.warning(...), then the removal of the line from the list.
\* self.logger is assigned only after the setup call returns, so the except
\* block itself raises AttributeError, which leaves __init__.
SetupGpioStep ==
    /\ ctor.pc = "setup"
    /\ GPIO_AVAILABLE
    /\ ctor.i < Len(pins_to_monitor)
    /\ LET pin == pins_to_monitor[ctor.i + 1]
       IN  IF pin \notin ctor.fails
           THEN /\ \E level \in Levels : pin_states' = Put(pin_states, pin, level)
                /\ last_transition_time' = Put(last_transition_time, pin, now)
                /\ ctor' = [ctor EXCEPT !.i = @ + 1]
                /\ UNCHANGED pins_to_monitor
           ELSE IF ~ctor.logger
           THEN /\ ctor' = [ctor EXCEPT !.i = @ + 1, !.pc = "raised"]
                /\ UNCHANGED <<pin_states, last_transition_time, pins_to_monitor>>
           ELSE /\ pins_to_monitor' = ListRemove(pins_to_monitor, pin)
                /\ ctor' = [ctor EXCEPT !.i = @ + 1]
                /\ UNCHANGED <<pin_states, last_transition_time>>
    /\ op' = [name |-> "setup"]
    /\ UNCHANGED <<GPIO_AVAILABLE, transition_counts, high_duration_history,
                   current_high_start, now, ticks, edge_log, reset_mark>>
    /\ UNCHANGED threads
    /\ UNCHANGED service

\* One iteration of the for loop of _setup_simulation.
SetupSimulationStep ==
    /\ ctor.pc = "setup"
    /\ ~GPIO_AVAILABLE
    /\ ctor.i < Len(pins_to_monitor)
    /\ LET pin == pins_to_monitor[ctor.i + 1]
       IN  /\ \E level \in Levels : pin_states' = Put(pin_states, pin, level)
           /\ last_transition_time' = Put(last_transition_time, pin, now)
    /\ ctor' = [ctor EXCEPT !.i = @ + 1]
    /\ op' = [name |-> "setup"]
    /\ UNCHANGED <<GPIO_AVAILABLE, pins_to_monitor, transition_counts,
                   high_duration_history, current_high_start, now, ticks, edge_log,
                   reset_mark>>
    /\ UNCHANGED threads
    /\ UNCHANGED service

\* The setup loop is exhausted: __init__ assigns self.logger and returns.
SetupFinish ==
    /\ ctor.pc = "setup"
    /\ ctor.i >= Len(pins_to_monitor)
    /\ ctor' = [ctor EXCEPT !.pc = "done", !.logger = TRUE]
    /\ op' = [name |-> "constructed"]
    /\ UNCHANGED <<GPIO_AVAILABLE, pins_to_monitor, pin_states, transition_counts,
                   last_transition_time, high_duration_history, current_high_start,
                   now, ticks, edge_log, reset_mark>>
    /\ UNCHANGED threads
    /\ UNCHANGED service

NextSetup ==
    \/ SetupGpioStep
    \/ SetupSimulationStep
    \/ SetupFinish
    \/ Advance

SpecSetup == InitSetup /\ [][NextSetup]_vars

\* ------------------------------------------- construction: the configuration
\* The values a configuration file may give to the keys; <<>> is a key left out.
PinsTried == {<<>>} \cup {<<l>> : l \in ListsOver(AllPins)}
IntervalsTried == {<<>>, <<DefaultInterval>>, <<50>>}
MinutesTried == {<<>>, <<DefaultHistoryMinutes>>, <<5>>}
LabelsTried == {<<>>, <<EmptyDict>>, <<[p \in {5} |-> "door"]>>}
FilesTried ==
    {MissingFile, InvalidJsonFile, JsonFile(JsonArray)}
    \cup {JsonFile(JsonObject(p, i, m, l)) :
             p \in PinsTried, i \in IntervalsTried, m \in MinutesTried, l \in LabelsTried}

\* GPIOMonitor(config_file) is called: nothing is assigned yet.
InitConfig ==
    /\ GPIO_AVAILABLE \in BOOLEAN
    /\ config_file \in FilesTried
    /\ config = JsonArray
    /\ pins_to_monitor = <<>>
    /\ update_interval = 0
    /\ history_duration = 0
    /\ pin_labels = EmptyDict
    /\ pin_states = EmptyDict
    /\ transition_counts = EmptyDict
    /\ last_transition_time = EmptyDict
    /\ high_duration_history = EmptyDict
    /\ current_high_start = EmptyDict
    /\ now = 0
    /\ ticks = 0
    /\ op = [name |-> "init"]
    /\ edge_log = [p \in AllPins \cup Elems(DefaultPins) |-> <<>>]
    /\ reset_mark = [p \in AllPins \cup Elems(DefaultPins) |-> 0]
    /\ ctor = [pc |-> "load", requested |-> <<>>, fails |-> {}, i |-> 0,
               logger |-> FALSE]
    /\ ThreadsIdle
    /\ monitoring = FALSE
    /\ monitor_thread = <<>>
    /\ loops = <<>>
    /\ caller = CallerIdle
    /\ update_running = FALSE
    /\ hb = HbIdle
    /\ sink = "ok"
    /\ notified = <<>>

\* self.config = self._load_config(config_file): an exception _load_config
\* does not catch leaves __init__.
LoadConfigStep ==
    /\ ctor.pc = "load"
    /\ IF LoadRaises(config_file)
       THEN /\ ctor' = [ctor EXCEPT !.pc = "raised"]
            /\ UNCHANGED config
       ELSE /\ config' = load_config(config_file)
            /\ ctor' = [ctor EXCEPT !.pc = "fields"]
    /\ op' = [name |-> "load_config"]
    /\ UNCHANGED <<GPIO_AVAILABLE, pins_to_monitor, pin_states, transition_counts,
                   last_transition_time, high_duration_history, current_high_start,
                   now, ticks, edge_log, reset_mark>>
    /\ UNCHANGED threads
    /\ UNCHANGED <<config_file, update_interval, history_duration, pin_labels>>
    /\ UNCHANGED <<lifecycle, web>>

\* The four self.config.get(key, default) of __init__ and the empty maps,
\* up to the call of the setup method. self.config.get raises
\* AttributeError when the document was not an object.
InitFieldsStep ==
    /\ ctor.pc = "fields"
    /\ IF config.type # "object"
       THEN /\ ctor' = [ctor EXCEPT !.pc = "raised"]
            /\ UNCHANGED <<pins_to_monitor, update_interval, history_duration,
                           pin_labels>>
       ELSE /\ pins_to_monitor' = ConfigGet(config.pins_to_monitor, DefaultPins)
            /\ update_interval' = ConfigGet(config.update_interval, DefaultInterval)
            /\ history_duration' =
                   ConfigGet(config.history_duration_minutes, DefaultHistoryMinutes)
            /\ pin_labels' = ConfigGet(config.pin_labels, EmptyDict)
            /\ ctor' = [ctor EXCEPT !.pc = "setup", !.requested = pins_to_monitor']
    /\ op' = [name |-> "init_fields"]
    /\ UNCHANGED <<GPIO_AVAILABLE, pin_states, transition_counts,
                   last_transition_time, high_duration_history, current_high_start,
                   now, ticks, edge_log, reset_mark>>
    /\ UNCHANGED threads
    /\ UNCHANGED <<config_file, config>>
    /\ UNCHANGED <<lifecycle, web>>

NextConfig ==
    \/ LoadConfigStep
    \/ InitFieldsStep
    \/ Advance

SpecConfig == InitConfig /\ [][NextConfig]_vars

\* ------------------------------------------- a monitor with a long history
\* The state after the first configured line, low at construction, has gone
\* high and low again n times, one edge per clock unit, the last falling
\* edge at time -1: n recorded intervals of duration 1, 2n counted edges.
PastEntry(k, n) == [timestamp |-> isoformat(2 * (k - n) - 1), duration |-> 1]
PastHistory(n) == [k \in 1..n |-> PastEntry(k, n)]
PastEdges(n) ==
    [i \in 1..(2 * n) |->
        IF i % 2 = 1 THEN <<0, 1, i - 2 * n - 1>> ELSE <<1, 0, i - 2 * n - 1>>]

\* Such a monitor, its buffer one short of capacity or full, the long-running
\* line now low or high again since time 0, the other line untouched. It
\* runs on hardware, whose reads include every read the simulation makes.
InitCap ==
    LET busy == ConfigPins[1]
        others == Elems(ConfigPins) \ {busy}
    IN  \E n \in {HistoryMaxLen - 1, HistoryMaxLen}, level \in Levels :
          /\ GPIO_AVAILABLE = TRUE
          /\ pins_to_monitor = ConfigPins
          /\ \E other \in [others -> Levels] :
                pin_states = [p \in Elems(ConfigPins) |->
                                 IF p = busy THEN level ELSE other[p]]
          /\ transition_counts = Put(EmptyDict, busy, 2 * n + level)
          /\ last_transition_time =
                 [p \in Elems(ConfigPins) |->
                     IF p = busy THEN level - 1 ELSE 0 - 2 * HistoryMaxLen - 1]
          /\ high_duration_history = Put(EmptyDict, busy, PastHistory(n))
          /\ current_high_start =
                 IF level = 1 THEN Put(EmptyDict, busy, 0) ELSE EmptyDict
          /\ now = 0
          /\ ticks = 0
          /\ op = [name |-> "init"]
          /\ edge_log = [p \in Elems(ConfigPins) |->
                            IF p = busy
                            THEN PastEdges(n) \o (IF level = 1 THEN <<<<0, 1, 0>>>> ELSE <<>>)
                            ELSE <<>>]
          /\ reset_mark = [p \in Elems(ConfigPins) |-> 0]
          /\ ctor = CtorDone(ConfigPins)
          /\ ThreadsIdle
          /\ ServiceState(TRUE)

\* The operations that write to the monitor's maps; the two pure reads,
\* get_transition_summary and get_pin_history, leave them as they are.
NextCap ==
    \/ Advance
    \/ Tick
    \/ ResetCounters
    \/ GetPinStatus

SpecCap == InitCap /\ [][NextCap]_vars

\* ------------------------------------------- the threads, statement by statement
\* The sampling thread, a get_pin_status call and a reset_counters call run
\* with no lock: each step below is one read or one write of the shared
\* maps, and the steps of the three threads interleave freely.
MaxCalls == 1
MaxConcTicks == 1

\* while self.monitoring: current_time = datetime.now(); the for loop begins.
MonLoop ==
    /\ Constructed
    /\ monitoring
    /\ mon.pc = "loop"
    /\ ticks < MaxConcTicks
    /\ mon' = [MonIdle EXCEPT !.pc = "for", !.current_time = now]
    /\ ticks' = ticks + 1
    /\ UNCHANGED <<GPIO_AVAILABLE, pins_to_monitor, pin_states, transition_counts,
                   last_transition_time, high_duration_history, current_high_start,
                   now, op, edge_log, reset_mark, ctor, rdr, rst>>
    /\ UNCHANGED service

\* for pin in self.pins_to_monitor: old_state = self.pin_states.get(pin, 0);
\* when the list is exhausted, time.sleep and back to the while.
MonFor ==
    /\ mon.pc = "for"
    /\ IF mon.i < Len(pins_to_monitor)
       THEN LET pin == pins_to_monitor[mon.i + 1]
            IN  mon' = [mon EXCEPT !.pc = "read", !.i = @ + 1, !.pin = pin,
                                   !.old_state = Get(pin_states, pin, 0),
                                   !.new_state = 0, !.tmp = 0]
       ELSE mon' = MonIdle
    /\ UNCHANGED <<GPIO_AVAILABLE, pins_to_monitor, pin_states, transition_counts,
                   last_transition_time, high_duration_history, current_high_start,
                   now, ticks, op, edge_log, reset_mark, ctor, rdr, rst>>
    /\ UNCHANGED service

\* new_state = GPIO.input(pin), or the simulation's draw; a failed read is
\* `continue`; then `if new_state != old_state`.
MonRead ==
    /\ mon.pc = "read"
    /\ \E read \in ReadOutcomes(mon.old_state) :
          IF read = ReadError \/ read[1] = mon.old_state
          THEN /\ mon' = [mon EXCEPT !.pc = "for"]
               /\ UNCHANGED edge_log
          ELSE /\ mon' = [mon EXCEPT !.pc = "l128", !.new_state = read[1]]
               /\ edge_log' = [edge_log EXCEPT ![mon.pin] =
                                   Append(@, <<mon.old_state, read[1], mon.current_time>>)]
    /\ UNCHANGED <<GPIO_AVAILABLE, pins_to_monitor, pin_states, transition_counts,
                   last_transition_time, high_duration_history, current_high_start,
                   now, ticks, op, reset_mark, ctor, rdr, rst>>
    /\ UNCHANGED service

\* self.pin_states[pin] = new_state
Mon128 ==
    /\ mon.pc = "l128"
    /\ Install(SetPinState(St, mon.pin, mon.new_state))
    /\ mon' = [mon EXCEPT !.pc = "l129"]
    /\ UNCHANGED <<GPIO_AVAILABLE, pins_to_monitor, now, ticks, op, edge_log,
                   reset_mark, ctor, rdr, rst>>
    /\ UNCHANGED service

\* self.transition_counts[pin] += 1, first half: the current count is read
\* (a missing key is created with 0).
Mon129Load ==
    /\ mon.pc = "l129"
    /\ transition_counts' = Put(transition_counts, mon.pin, Get(transition_counts, mon.pin, 0))
    /\ mon' = [mon EXCEPT !.pc = "l129s", !.tmp = Get(transition_counts, mon.pin, 0)]
    /\ UNCHANGED <<GPIO_AVAILABLE, pins_to_monitor, pin_states, last_transition_time,
                   high_duration_history, current_high_start, now, ticks, op,
                   edge_log, reset_mark, ctor, rdr, rst>>
    /\ UNCHANGED service

\* self.transition_counts[pin] += 1, second half: the count read plus one
\* is stored.
Mon129Store ==
    /\ mon.pc = "l129s"
    /\ transition_counts' = Put(transition_counts, mon.pin, mon.tmp + 1)
    /\ mon' = [mon EXCEPT !.pc = "l130", !.tmp = 0]
    /\ UNCHANGED <<GPIO_AVAILABLE, pins_to_monitor, pin_states, last_transition_time,
                   high_duration_history, current_high_start, now, ticks, op,
                   edge_log, reset_mark, ctor, rdr, rst>>
    /\ UNCHANGED service

\* self.last_transition_time[pin] = current_time, then the branch on the
\* kind of edge.
Mon130 ==
    /\ mon.pc = "l130"
    /\ Install(SetLastTransition(St, mon.pin, mon.current_time))
    /\ mon' = [mon EXCEPT !.pc = IF mon.old_state = 1 /\ mon.new_state = 0 THEN "l134"
                                 ELSE IF mon.old_state = 0 /\ mon.new_state = 1 THEN "l143"
                                 ELSE "for"]
    /\ UNCHANGED <<GPIO_AVAILABLE, pins_to_monitor, now, ticks, op, edge_log,
                   reset_mark, ctor, rdr, rst>>
    /\ UNCHANGED service

\* if pin in self.current_high_start
Mon134 ==
    /\ mon.pc = "l134"
    /\ mon' = [mon EXCEPT !.pc = IF mon.pin \in DOMAIN current_high_start
                                 THEN "l135" ELSE "for"]
    /\ UNCHANGED <<GPIO_AVAILABLE, pins_to_monitor, pin_states, transition_counts,
                   last_transition_time, high_duration_history, current_high_start,
                   now, ticks, op, edge_log, reset_mark, ctor, rdr, rst>>
    /\ UNCHANGED service

\* duration = (current_time - self.current_high_start[pin]).total_seconds()
Mon135 ==
    /\ mon.pc = "l135"
    /\ mon' = IF mon.pin \in DOMAIN current_high_start
              THEN [mon EXCEPT !.pc = "l136",
                               !.tmp = mon.current_time - current_high_start[mon.pin]]
              ELSE [mon EXCEPT !.pc = "raised"]
    /\ UNCHANGED <<GPIO_AVAILABLE, pins_to_monitor, pin_states, transition_counts,
                   last_transition_time, high_duration_history, current_high_start,
                   now, ticks, op, edge_log, reset_mark, ctor, rdr, rst>>
    /\ UNCHANGED service

\* self.high_duration_history[pin].append({...})
Mon136 ==
    /\ mon.pc = "l136"
    /\ Install(AppendInterval(St, mon.pin, mon.current_time, mon.tmp))
    /\ mon' = [mon EXCEPT !.pc = "l140", !.tmp = 0]
    /\ UNCHANGED <<GPIO_AVAILABLE, pins_to_monitor, now, ticks, op, edge_log,
                   reset_mark, ctor, rdr, rst>>
    /\ UNCHANGED service

\* del self.current_high_start[pin]
Mon140 ==
    /\ mon.pc = "l140"
    /\ Install(DelPending(St, mon.pin))
    /\ mon' = [mon EXCEPT !.pc = IF mon.pin \in DOMAIN current_high_start
                                 THEN "for" ELSE "raised"]
    /\ UNCHANGED <<GPIO_AVAILABLE, pins_to_monitor, now, ticks, op, edge_log,
                   reset_mark, ctor, rdr, rst>>
    /\ UNCHANGED service

\* self.current_high_start[pin] = current_time
Mon143 ==
    /\ mon.pc = "l143"
    /\ Install(RisingEdge(St, mon.pin, mon.current_time))
    /\ mon' = [mon EXCEPT !.pc = "for"]
    /\ UNCHANGED <<GPIO_AVAILABLE, pins_to_monitor, now, ticks, op, edge_log,
                   reset_mark, ctor, rdr, rst>>
    /\ UNCHANGED service

\* get_pin_status() is called: current_time = datetime.now(); status = {}.
RdrCall ==
    /\ Constructed
    /\ rdr.pc = "idle"
    /\ rdr.calls < MaxCalls
    /\ rdr' = [RdrIdle EXCEPT !.pc = "for", !.calls = rdr.calls + 1, !.current_time = now]
    /\ UNCHANGED <<GPIO_AVAILABLE, pins_to_monitor, pin_states, transition_counts,
                   last_transition_time, high_duration_history, current_high_start,
                   now, ticks, op, edge_log, reset_mark, ctor, mon, rst>>
    /\ UNCHANGED service

\* for pin in self.pins_to_monitor; return status when the list is done.
RdrFor ==
    /\ rdr.pc = "for"
    /\ IF rdr.i < Len(pins_to_monitor)
       THEN /\ rdr' = [rdr EXCEPT !.pc = "l156", !.i = @ + 1,
                                  !.pin = pins_to_monitor[rdr.i + 1],
                                  !.has_start = <<>>, !.level = <<>>, !.entry = <<>>]
            /\ UNCHANGED op
       ELSE /\ rdr' = [RdrIdle EXCEPT !.calls = rdr.calls]
            /\ op' = [name |-> "get_pin_status", time |-> rdr.current_time,
                      result |-> rdr.status]
    /\ UNCHANGED <<GPIO_AVAILABLE, pins_to_monitor, pin_states, transition_counts,
                   last_transition_time, high_duration_history, current_high_start,
                   now, ticks, edge_log, reset_mark, ctor, mon, rst>>
    /\ UNCHANGED service

\* The entry under construction, as a record of the fields set so far.
RdrEntry(duration) == [current_high_duration |-> duration]

\* `pin in self.current_high_start`, the left operand of the `and`.
Rdr156In ==
    /\ rdr.pc = "l156"
    /\ LET has == rdr.pin \in DOMAIN current_high_start
       IN  rdr' = IF has THEN [rdr EXCEPT !.pc = "l156s", !.has_start = <<has>>]
                  ELSE [rdr EXCEPT !.pc = "l160", !.has_start = <<has>>,
                                   !.entry = RdrEntry(0)]
    /\ UNCHANGED <<GPIO_AVAILABLE, pins_to_monitor, pin_states, transition_counts,
                   last_transition_time, high_duration_history, current_high_start,
                   now, ticks, op, edge_log, reset_mark, ctor, mon, rst>>
    /\ UNCHANGED service

\* `self.pin_states.get(pin) == 1`, the right operand.
Rdr156State ==
    /\ rdr.pc = "l156s"
    /\ LET level == Opt(pin_states, rdr.pin)
       IN  rdr' = IF level = <<1>> THEN [rdr EXCEPT !.pc = "l157", !.level = level]
                  ELSE [rdr EXCEPT !.pc = "l160", !.level = level, !.entry = RdrEntry(0)]
    /\ UNCHANGED <<GPIO_AVAILABLE, pins_to_monitor, pin_states, transition_counts,
                   last_transition_time, high_duration_history, current_high_start,
                   now, ticks, op, edge_log, reset_mark, ctor, mon, rst>>
    /\ UNCHANGED service

\* current_high_duration = (current_time - self.current_high_start[pin])
\* .total_seconds(); KeyError when the key has gone since the test.
Rdr157 ==
    /\ rdr.pc = "l157"
    /\ rdr' = IF rdr.pin \in DOMAIN current_high_start
              THEN [rdr EXCEPT !.pc = "l160",
                               !.entry = RdrEntry(rdr.current_time
                                                  - current_high_start[rdr.pin])]
              ELSE [rdr EXCEPT !.pc = "raised"]
    /\ UNCHANGED <<GPIO_AVAILABLE, pins_to_monitor, pin_states, transition_counts,
                   last_transition_time, high_duration_history, current_high_start,
                   now, ticks, op, edge_log, reset_mark, ctor, mon, rst>>
    /\ UNCHANGED service

\* 'state': self.pin_states.get(pin, 0) and 'label'
Rdr160 ==
    /\ rdr.pc = "l160"
    /\ rdr' = [rdr EXCEPT !.pc = "l162",
                          !.entry = [current_high_duration |-> @.current_high_duration,
                                     state |-> Get(pin_states, rdr.pin, 0),
                                     label |-> <<"GPIO", rdr.pin>>]]
    /\ UNCHANGED <<GPIO_AVAILABLE, pins_to_monitor, pin_states, transition_counts,
                   last_transition_time, high_duration_history, current_high_start,
                   now, ticks, op, edge_log, reset_mark, ctor, mon, rst>>
    /\ UNCHANGED service

\* 'transitions': self.transition_counts[pin], which creates a missing key.
Rdr162 ==
    /\ rdr.pc = "l162"
    /\ transition_counts' = Put(transition_counts, rdr.pin, Get(transition_counts, rdr.pin, 0))
    /\ rdr' = [rdr EXCEPT !.pc = "l163",
                          !.entry = [current_high_duration |-> @.current_high_duration,
                                     state |-> @.state, label |-> @.label,
                                     transitions |-> Get(transition_counts, rdr.pin, 0)]]
    /\ UNCHANGED <<GPIO_AVAILABLE, pins_to_monitor, pin_states, last_transition_time,
                   high_duration_history, current_high_start, now, ticks, op,
                   edge_log, reset_mark, ctor, mon, rst>>
    /\ UNCHANGED service

\* 'last_transition': self.last_transition_time.get(pin, current_time).isoformat()
Rdr163 ==
    /\ rdr.pc = "l163"
    /\ rdr' = [rdr EXCEPT !.pc = "l165",
                          !.entry = [current_high_duration |-> @.current_high_duration,
                                     state |-> @.state, label |-> @.label,
                                     transitions |-> @.transitions,
                                     last_transition |->
                                         isoformat(Get(last_transition_time, rdr.pin,
                                                       rdr.current_time))]]
    /\ UNCHANGED <<GPIO_AVAILABLE, pins_to_monitor, pin_states, transition_counts,
                   last_transition_time, high_duration_history, current_high_start,
                   now, ticks, op, edge_log, reset_mark, ctor, mon, rst>>
    /\ UNCHANGED service

\* 'high_duration_history': list(self.high_duration_history[pin])[-50:],
\* which creates a missing key; then status[str(pin)] = {...}.
Rdr165 ==
    /\ rdr.pc = "l165"
    /\ high_duration_history' =
           Put(high_duration_history, rdr.pin, Get(high_duration_history, rdr.pin, <<>>))
    /\ LET entry == [state |-> rdr.entry.state,
                     label |-> rdr.entry.label,
                     transitions |-> rdr.entry.transitions,
                     last_transition |-> rdr.entry.last_transition,
                     current_high_duration |-> rdr.entry.current_high_duration,
                     high_duration_history |->
                         LastN(Get(high_duration_history, rdr.pin, <<>>), StatusHistoryLen)]
       IN  rdr' = [rdr EXCEPT !.pc = "for", !.entry = <<>>,
                              !.has_start = <<>>, !.level = <<>>,
                              !.status = Put(@, rdr.pin, entry)]
    /\ UNCHANGED <<GPIO_AVAILABLE, pins_to_monitor, pin_states, transition_counts,
                   last_transition_time, current_high_start, now, ticks, op,
                   edge_log, reset_mark, ctor, mon, rst>>
    /\ UNCHANGED service

\* reset_counters() is called.
RstCall ==
    /\ Constructed
    /\ rst.pc = "idle"
    /\ rst.calls < MaxCalls
    /\ rst' = [pc |-> "l176", calls |-> rst.calls + 1, i |-> 0]
    /\ UNCHANGED <<GPIO_AVAILABLE, pins_to_monitor, pin_states, transition_counts,
                   last_transition_time, high_duration_history, current_high_start,
                   now, ticks, op, edge_log, reset_mark, ctor, mon, rdr>>
    /\ UNCHANGED service

\* self.transition_counts.clear()
Rst176 ==
    /\ rst.pc = "l176"
    /\ transition_counts' = EmptyDict
    /\ reset_mark' = [p \in DOMAIN edge_log |-> Len(edge_log[p])]
    /\ rst' = [rst EXCEPT !.pc = "for"]
    /\ UNCHANGED <<GPIO_AVAILABLE, pins_to_monitor, pin_states, last_transition_time,
                   high_duration_history, current_high_start, now, ticks, op,
                   edge_log, ctor, mon, rdr>>
    /\ UNCHANGED service

\* for pin in self.pins_to_monitor: self.high_duration_history[pin].clear();
\* the call returns when the list is done.
RstFor ==
    /\ rst.pc = "for"
    /\ IF rst.i < Len(pins_to_monitor)
       THEN /\ high_duration_history' =
                   Put(high_duration_history, pins_to_monitor[rst.i + 1], <<>>)
            /\ rst' = [rst EXCEPT !.i = @ + 1]
            /\ UNCHANGED op
       ELSE /\ rst' = [rst EXCEPT !.pc = "idle", !.i = 0]
            /\ op' = [name |-> "reset_counters"]
            /\ UNCHANGED high_duration_history
    /\ UNCHANGED <<GPIO_AVAILABLE, pins_to_monitor, pin_states, transition_counts,
                   last_transition_time, current_high_start, now, ticks,
                   edge_log, reset_mark, ctor, mon, rdr>>
    /\ UNCHANGED service

\* The sampling thread and a get_pin_status call.
NextConc ==
    \/ Advance
    \/ MonLoop
    \/ MonFor
    \/ MonRead
    \/ Mon128
    \/ Mon129Load
    \/ Mon129Store
    \/ Mon130
    \/ Mon134
    \/ Mon135
    \/ Mon136
    \/ Mon140
    \/ Mon143
    \/ RdrCall
    \/ RdrFor
    \/ Rdr156In
    \/ Rdr156State
    \/ Rdr157
    \/ Rdr160
    \/ Rdr162
    \/ Rdr163
    \/ Rdr165

\* The sampling thread and a reset_counters call.
NextReset ==
    \/ Advance
    \/ MonLoop
    \/ MonFor
    \/ MonRead
    \/ Mon128
    \/ Mon129Load
    \/ Mon129Store
    \/ Mon130
    \/ Mon134
    \/ Mon135
    \/ Mon136
    \/ Mon140
    \/ Mon143
    \/ RstCall
    \/ Rst176
    \/ RstFor

\* The threads start on a monitor that was constructed at time 0 and may
\* have sampled since: each line is low, or high since construction (no
\* pending start), or high after one rising edge processed at time 0.
InitConc ==
    /\ GPIO_AVAILABLE \in BOOLEAN
    /\ pins_to_monitor = ConfigPins
    /\ \E risen \in SUBSET Elems(ConfigPins) :
          /\ \E level \in [Elems(ConfigPins) \ risen -> Levels] :
                pin_states = [p \in Elems(ConfigPins) |->
                                 IF p \in risen THEN 1 ELSE level[p]]
          /\ transition_counts = [p \in risen |-> 1]
          /\ current_high_start = [p \in risen |-> 0]
          /\ edge_log = [p \in Elems(ConfigPins) |->
                            IF p \in risen THEN <<<<0, 1, 0>>>> ELSE <<>>]
    /\ last_transition_time = [p \in Elems(ConfigPins) |-> 0]
    /\ high_duration_history = EmptyDict
    /\ now = 0
    /\ ticks = 0
    /\ op = [name |-> "init"]
    /\ reset_mark = [p \in Elems(ConfigPins) |-> 0]
    /\ ctor = CtorDone(ConfigPins)
    /\ ThreadsIdle
    /\ ServiceState(TRUE)

SpecConc == InitConc /\ [][NextConc]_vars

SpecReset == InitConc /\ [][NextReset]_vars

\* The sampling thread, a get_pin_status call and a reset_counters call,
\* all three against each other, on a monitor of one line.
NextThreads ==
    \/ Advance
    \/ MonLoop
    \/ MonFor
    \/ MonRead
    \/ Mon128
    \/ Mon129Load
    \/ Mon129Store
    \/ Mon130
    \/ Mon134
    \/ Mon135
    \/ Mon136
    \/ Mon140
    \/ Mon143
    \/ RdrCall
    \/ RdrFor
    \/ Rdr156In
    \/ Rdr156State
    \/ Rdr157
    \/ Rdr160
    \/ Rdr162
    \/ Rdr163
    \/ Rdr165
    \/ RstCall
    \/ Rst176
    \/ RstFor

\* As InitConc, for the first configured line alone.
InitThreads ==
    /\ GPIO_AVAILABLE \in BOOLEAN
    /\ pins_to_monitor = <<ConfigPins[1]>>
    /\ \E risen \in SUBSET Elems(pins_to_monitor) :
          /\ \E level \in [Elems(pins_to_monitor) \ risen -> Levels] :
                pin_states = [p \in Elems(pins_to_monitor) |->
                                 IF p \in risen THEN 1 ELSE level[p]]
          /\ transition_counts = [p \in risen |-> 1]
          /\ current_high_start = [p \in risen |-> 0]
          /\ edge_log = [p \in Elems(pins_to_monitor) |->
                            IF p \in risen THEN <<<<0, 1, 0>>>> ELSE <<>>]
    /\ last_transition_time = [p \in Elems(pins_to_monitor) |-> 0]
    /\ high_duration_history = EmptyDict
    /\ now = 0
    /\ ticks = 0
    /\ op = [name |-> "init"]
    /\ reset_mark = [p \in Elems(pins_to_monitor) |-> 0]
    /\ ctor = CtorDone(pins_to_monitor)
    /\ ThreadsIdle
    /\ ServiceState(TRUE)

SpecThreads == InitThreads /\ [][NextThreads]_vars

\* ------------------------------------------------ start and stop, by statement
\* The calls of start_monitoring() and stop_monitoring() made, one after the
\* other, by one thread.
MaxLifeCalls == 3

\* Mutant: start_monitoring() does not test the flag.
AlreadyRunning_Untested(flag) == FALSE

\* if self.monitoring: return
AlreadyRunning(flag) == flag

\* Mutant: join gives up waiting (a timeout) while the thread still runs.
Joined_NoWait(l, thread) == TRUE

\* self.monitor_thread.join() returns once the thread's _monitor_loop has
\* returned; `if self.monitor_thread` skips it for None.
Joined(l, thread) == IF thread = <<>> THEN TRUE ELSE l[thread[1]].pc = "done"

\* The sampling threads whose _monitor_loop has not returned.
LiveLoops == {t \in 1..Len(loops) : loops[t].pc # "done"}

\* What the steps of start_monitoring and stop_monitoring leave alone.
CallerFrame ==
    /\ UNCHANGED <<GPIO_AVAILABLE, pins_to_monitor, pin_states, transition_counts,
                   last_transition_time, high_duration_history, current_high_start,
                   now, ticks, edge_log, reset_mark, ctor>>
    /\ UNCHANGED threads
    /\ UNCHANGED <<settings, web>>

\* start_monitoring() or stop_monitoring() is called.
Call ==
    /\ Constructed
    /\ caller.pc = "idle"
    /\ caller.calls < MaxLifeCalls
    /\ \E method \in {"start_monitoring", "stop_monitoring"} :
          /\ caller' = [pc |-> IF method = "start_monitoring" THEN "s85" ELSE "p95",
                        calls |-> caller.calls + 1]
          /\ op' = [name |-> "call", method |-> method]
    /\ UNCHANGED <<monitoring, monitor_thread, loops>>
    /\ CallerFrame

\* if self.monitoring: return
Start85 ==
    /\ caller.pc = "s85"
    /\ IF AlreadyRunning(monitoring)
       THEN /\ caller' = [caller EXCEPT !.pc = "idle"]
            /\ op' = [name |-> "return", method |-> "start_monitoring", started |-> FALSE]
       ELSE /\ caller' = [caller EXCEPT !.pc = "s88"]
            /\ UNCHANGED op
    /\ UNCHANGED <<monitoring, monitor_thread, loops>>
    /\ CallerFrame

\* self.monitoring = True
Start88 ==
    /\ caller.pc = "s88"
    /\ monitoring' = TRUE
    /\ caller' = [caller EXCEPT !.pc = "s89"]
    /\ UNCHANGED <<op, monitor_thread, loops>>
    /\ CallerFrame

\* self.monitor_thread = threading.Thread(target=self._monitor_loop, ...);
\* self.monitor_thread.start()
Start89 ==
    /\ caller.pc = "s89"
    /\ loops' = Append(loops, LoopAt("while", 0))
    /\ monitor_thread' = <<Len(loops) + 1>>
    /\ caller' = [caller EXCEPT !.pc = "s91"]
    /\ UNCHANGED <<op, monitoring>>
    /\ CallerFrame

\* self.logger.info("GPIO monitoring started"); the call returns.
Start91 ==
    /\ caller.pc = "s91"
    /\ caller' = [caller EXCEPT !.pc = "idle"]
    /\ op' = [name |-> "return", method |-> "start_monitoring", started |-> TRUE]
    /\ UNCHANGED <<monitoring, monitor_thread, loops>>
    /\ CallerFrame

\* self.monitoring = False
Stop95 ==
    /\ caller.pc = "p95"
    /\ monitoring' = FALSE
    /\ caller' = [caller EXCEPT !.pc = "p96"]
    /\ UNCHANGED <<op, monitor_thread, loops>>
    /\ CallerFrame

\* if self.monitor_thread: self.monitor_thread.join()
Stop96 ==
    /\ caller.pc = "p96"
    /\ Joined(loops, monitor_thread)
    /\ caller' = [caller EXCEPT !.pc = "p99"]
    /\ UNCHANGED <<op, monitoring, monitor_thread, loops>>
    /\ CallerFrame

\* GPIO.cleanup() on hardware; self.logger.info("GPIO monitoring stopped");
\* the call returns. (After the cleanup GPIO.input raises for every line;
\* the reads of a later loop are among the hardware's outcomes.)
Stop99 ==
    /\ caller.pc = "p99"
    /\ caller' = [caller EXCEPT !.pc = "idle"]
    /\ op' = [name |-> "return", method |-> "stop_monitoring", started |-> FALSE]
    /\ UNCHANGED <<monitoring, monitor_thread, loops>>
    /\ CallerFrame

\* Thread t at `while self.monitoring:`. When the flag is set,
\* current_time = datetime.now() and the tick begins; when it is not,
\* _monitor_loop returns.
LoopWhile(t) ==
    /\ loops[t].pc = "while"
    /\ IF monitoring
       THEN /\ ticks < MaxTicks
            /\ loops' = [loops EXCEPT ![t] = LoopAt("for", now)]
            /\ ticks' = ticks + 1
       ELSE /\ loops' = [loops EXCEPT ![t] = LoopAt("done", @.current_time)]
            /\ UNCHANGED ticks
    /\ UNCHANGED <<GPIO_AVAILABLE, pins_to_monitor, pin_states, transition_counts,
                   last_transition_time, high_duration_history, current_high_start,
                   now, op, edge_log, reset_mark, ctor>>
    /\ UNCHANGED threads
    /\ UNCHANGED <<settings, web, monitoring, monitor_thread, caller>>

\* Thread t runs the for loop of its tick over every monitored line, then
\* time.sleep(self.update_interval).
LoopFor(t) ==
    /\ loops[t].pc = "for"
    /\ \E reads \in [Elems(pins_to_monitor) -> {ReadOk(l) : l \in Levels} \cup {ReadError}] :
          /\ \A p \in Elems(pins_to_monitor) :
                reads[p] \in ReadOutcomes(Get(pin_states, p, 0))
          /\ Install(ProcessPins(St, pins_to_monitor, reads, loops[t].current_time))
          /\ edge_log' = LogEdges(reads, loops[t].current_time)
          /\ op' = [name |-> "tick", reads |-> reads, time |-> loops[t].current_time]
    /\ loops' = [loops EXCEPT ![t] = LoopAt("while", @.current_time)]
    /\ UNCHANGED <<GPIO_AVAILABLE, pins_to_monitor, now, ticks, reset_mark, ctor>>
    /\ UNCHANGED threads
    /\ UNCHANGED <<settings, web, monitoring, monitor_thread, caller>>

\* A step of some sampling thread.
LoopStep == \E t \in 1..Len(loops) : LoopWhile(t) \/ LoopFor(t)

\* A step of the calling thread.
CallerStep ==
    \/ Call
    \/ Start85
    \/ Start88
    \/ Start89
    \/ Start91
    \/ Stop95
    \/ Stop96
    \/ Stop99

\* A constructed monitor, watching the first configured line, on which
\* start_monitoring() has not been called.
InitLife ==
    /\ GPIO_AVAILABLE \in BOOLEAN
    /\ pins_to_monitor = <<ConfigPins[1]>>
    /\ pin_states \in [Elems(pins_to_monitor) -> Levels]
    /\ transition_counts = EmptyDict
    /\ last_transition_time = [p \in Elems(pins_to_monitor) |-> 0]
    /\ high_duration_history = EmptyDict
    /\ current_high_start = EmptyDict
    /\ now = 0
    /\ ticks = 0
    /\ op = [name |-> "init"]
    /\ edge_log = [p \in Elems(pins_to_monitor) |-> <<>>]
    /\ reset_mark = [p \in Elems(pins_to_monitor) |-> 0]
    /\ ctor = CtorDone(pins_to_monitor)
    /\ ThreadsIdle
    /\ ServiceState(FALSE)

NextLife ==
    \/ Advance
    \/ CallerStep
    \/ LoopStep

SpecLife == InitLife /\ [][NextLife]_vars

\* The same with sampling threads that are scheduled again and again.
SpecLifeFair == SpecLife /\ WF_vars(LoopStep)

\* ------------------------------------------------- the web server's updates
\* `if gpio_update_counter >= 1` and `if system_update_counter >= 10`
GpioUpdateEvery == 1
SystemUpdateEvery == 10

\* Mutant: the comparison is strict.
GpioDue_Strict(counter) == counter > GpioUpdateEvery

GpioDue(counter) == counter >= GpioUpdateEvery
SystemDue(counter) == counter >= SystemUpdateEvery

\* Mutant: the try block is around the while loop, so that an exception ends
\* the loop.
AfterExcept_EndsLoop(h) == [h EXCEPT !.pc = "done"]

\* The except block of the loop: the error is logged, time.sleep(1), and the
\* while condition is tested again.
AfterExcept(h) == [h EXCEPT !.pc = "while"]

\* start_background_updates(): the flag is set and the thread starts at the
\* top of _background_update_loop with both counters 0.
StartBackgroundUpdates ==
    /\ Constructed
    /\ ~update_running
    /\ update_running' = TRUE
    /\ hb' = [HbIdle EXCEPT !.pc = "while"]
    /\ op' = [name |-> "start_background_updates"]
    /\ UNCHANGED <<GPIO_AVAILABLE, pins_to_monitor, pin_states, transition_counts,
                   last_transition_time, high_duration_history, current_high_start,
                   now, ticks, edge_log, reset_mark, ctor>>
    /\ UNCHANGED threads
    /\ UNCHANGED <<settings, lifecycle, sink, notified>>

\* while self.update_running: an iteration begins.
HbWhile ==
    /\ hb.pc = "while"
    /\ hb' = IF update_running
             THEN [hb EXCEPT !.pc = "l196", !.attempted = FALSE, !.gpio_data = <<>>]
             ELSE [hb EXCEPT !.pc = "done"]
    /\ UNCHANGED <<GPIO_AVAILABLE, pins_to_monitor, pin_states, transition_counts,
                   last_transition_time, high_duration_history, current_high_start,
                   now, ticks, op, edge_log, reset_mark, ctor>>
    /\ UNCHANGED threads
    /\ UNCHANGED <<settings, lifecycle, update_running, sink, notified>>

\* if gpio_update_counter >= 1
Hb196 ==
    /\ hb.pc = "l196"
    /\ hb' = [hb EXCEPT !.pc = IF GpioDue(hb.gpio_update_counter) THEN "l197" ELSE "l203"]
    /\ UNCHANGED <<GPIO_AVAILABLE, pins_to_monitor, pin_states, transition_counts,
                   last_transition_time, high_duration_history, current_high_start,
                   now, ticks, op, edge_log, reset_mark, ctor>>
    /\ UNCHANGED threads
    /\ UNCHANGED <<settings, lifecycle, update_running, sink, notified>>

\* gpio_data = self.gpio_monitor.get_pin_status()
Hb197 ==
    /\ hb.pc = "l197"
    /\ Install(TouchDefaults(St, pins_to_monitor))
    /\ hb' = [hb EXCEPT !.pc = "l198",
                        !.gpio_data = <<get_pin_status(St, pins_to_monitor, now)>>]
    /\ op' = [name |-> "get_pin_status", time |-> now,
              result |-> get_pin_status(St, pins_to_monitor, now)]
    /\ UNCHANGED <<GPIO_AVAILABLE, pins_to_monitor, now, ticks, edge_log, reset_mark, ctor>>
    /\ UNCHANGED threads
    /\ UNCHANGED <<settings, lifecycle, update_running, sink, notified>>

\* self.socketio.server.emit('gpio_update', gpio_data, namespace='/') and,
\* when it returns, gpio_update_counter = 0. A sink that raises sends the
\* thread to the except block; a sink that blocks keeps it here.
Hb198 ==
    /\ hb.pc = "l198"
    /\ sink # "blocked"
    /\ IF sink = "ok"
       THEN /\ hb' = [hb EXCEPT !.pc = "l203", !.attempted = TRUE,
                                !.gpio_update_counter = 0]
            /\ op' = [name |-> "emit", event |-> "gpio_update", path |-> "heartbeat",
                      data |-> hb.gpio_data[1]]
       ELSE /\ hb' = [hb EXCEPT !.pc = "l214", !.attempted = TRUE, !.failed = TRUE,
                                !.raised = "gpio_update"]
            /\ op' = [name |-> "emit_failed", event |-> "gpio_update"]
    /\ UNCHANGED <<GPIO_AVAILABLE, pins_to_monitor, pin_states, transition_counts,
                   last_transition_time, high_duration_history, current_high_start,
                   now, ticks, edge_log, reset_mark, ctor>>
    /\ UNCHANGED threads
    /\ UNCHANGED <<settings, lifecycle, update_running, sink, notified>>

\* if system_update_counter >= 10
Hb203 ==
    /\ hb.pc = "l203"
    /\ hb' = [hb EXCEPT !.pc = IF SystemDue(hb.system_update_counter)
                               THEN "l205" ELSE "l209"]
    /\ UNCHANGED <<GPIO_AVAILABLE, pins_to_monitor, pin_states, transition_counts,
                   last_transition_time, high_duration_history, current_high_start,
                   now, ticks, op, edge_log, reset_mark, ctor>>
    /\ UNCHANGED threads
    /\ UNCHANGED <<settings, lifecycle, update_running, sink, notified>>

\* system_data = self.system_info.get_lightweight_summary(), which catches
\* its own errors; self.socketio.server.emit('system_update', ...) and, when
\* it returns, system_update_counter = 0.
Hb205 ==
    /\ hb.pc = "l205"
    /\ sink # "blocked"
    /\ IF sink = "ok"
       THEN /\ hb' = [hb EXCEPT !.pc = "l209", !.system_update_counter = 0]
            /\ op' = [name |-> "emit", event |-> "system_update", path |-> "heartbeat",
                      data |-> EmptyDict]
       ELSE /\ hb' = [hb EXCEPT !.pc = "l214", !.failed = TRUE,
                                !.raised = "system_update"]
            /\ op' = [name |-> "emit_failed", event |-> "system_update"]
    /\ UNCHANGED <<GPIO_AVAILABLE, pins_to_monitor, pin_states, transition_counts,
                   last_transition_time, high_duration_history, current_high_start,
                   now, ticks, edge_log, reset_mark, ctor>>
    /\ UNCHANGED threads
    /\ UNCHANGED <<settings, lifecycle, update_running, sink, notified>>

\* gpio_update_counter += 1; system_update_counter += 1; time.sleep(0.1)
Hb209 ==
    /\ hb.pc = "l209"
    /\ hb' = [hb EXCEPT !.pc = "while",
                        !.gpio_update_counter = @ + 1,
                        !.system_update_counter = @ + 1,
                        !.first = FALSE, !.after_system_failure = FALSE]
    /\ UNCHANGED <<GPIO_AVAILABLE, pins_to_monitor, pin_states, transition_counts,
                   last_transition_time, high_duration_history, current_high_start,
                   now, ticks, op, edge_log, reset_mark, ctor>>
    /\ UNCHANGED threads
    /\ UNCHANGED <<settings, lifecycle, update_running, sink, notified>>

\* except Exception as e: self.logger.error(...); time.sleep(1)
Hb214 ==
    /\ hb.pc = "l214"
    /\ hb' = AfterExcept([hb EXCEPT !.first = FALSE, !.raised = "none",
                                    !.after_system_failure = (hb.raised = "system_update")])
    /\ UNCHANGED <<GPIO_AVAILABLE, pins_to_monitor, pin_states, transition_counts,
                   last_transition_time, high_duration_history, current_high_start,
                   now, ticks, op, edge_log, reset_mark, ctor>>
    /\ UNCHANGED threads
    /\ UNCHANGED <<settings, lifecycle, update_running, sink, notified>>

\* The sink (the socket.io server and its clients' connections) changes
\* between delivering, raising and not returning.
SinkChange ==
    /\ \E s \in {"ok", "failing", "blocked"} \ {sink} : sink' = s
    /\ UNCHANGED <<GPIO_AVAILABLE, pins_to_monitor, pin_states, transition_counts,
                   last_transition_time, high_duration_history, current_high_start,
                   now, ticks, op, edge_log, reset_mark, ctor>>
    /\ UNCHANGED threads
    /\ UNCHANGED <<settings, lifecycle, update_running, hb, notified>>

\* The steps of the heartbeat thread.
HbStep ==
    \/ HbWhile
    \/ Hb196
    \/ Hb197
    \/ Hb198
    \/ Hb203
    \/ Hb205
    \/ Hb209
    \/ Hb214

\* A WebServer object whose monitor watches the first configured line and
\* is sampling, before start_background_updates(). (WebServer.__init__ as it
\* stands does not return such an object: line 40 calls
\* GPIOMonitor.set_state_change_callback, which GPIOMonitor does not define.
\* The loops are modelled as they run on an instance that exists.)
InitWeb ==
    /\ GPIO_AVAILABLE \in BOOLEAN
    /\ pins_to_monitor = <<ConfigPins[1]>>
    /\ pin_states \in [Elems(pins_to_monitor) -> Levels]
    /\ transition_counts = EmptyDict
    /\ last_transition_time = [p \in Elems(pins_to_monitor) |-> 0]
    /\ high_duration_history = EmptyDict
    /\ current_high_start = EmptyDict
    /\ now = 0
    /\ ticks = 0
    /\ op = [name |-> "init"]
    /\ edge_log = [p \in Elems(pins_to_monitor) |-> <<>>]
    /\ reset_mark = [p \in Elems(pins_to_monitor) |-> 0]
    /\ ctor = CtorDone(pins_to_monitor)
    /\ ThreadsIdle
    /\ ServiceState(TRUE)

NextWeb ==
    \/ Advance
    \/ Tick
    \/ StartBackgroundUpdates
    \/ HbStep
    \/ SinkChange

SpecWeb == InitWeb /\ [][NextWeb]_vars

\* The same without the clock, which the heartbeat loop does not read, and
\* with a heartbeat thread that is scheduled again and again.
NextBeat ==
    \/ Tick
    \/ StartBackgroundUpdates
    \/ HbStep
    \/ SinkChange

SpecWebFair == InitWeb /\ [][NextBeat]_vars /\ WF_vars(HbStep)

\* ------------------------------------------------------------------ claims
Monitored == Elems(pins_to_monitor)

\* The monitor's maps after the step.
StNext == [pin_states |-> pin_states',
           transition_counts |-> transition_counts',
           last_transition_time |-> last_transition_time',
           high_duration_history |-> high_duration_history',
           current_high_start |-> current_high_start']

\* Everything the monitor holds about one line; a missing key reads as its default.
LineView(S, p) ==
    [level |-> Get(S.pin_states, p, 0),
     count |-> Get(S.transition_counts, p, 0),
     last |-> Opt(S.last_transition_time, p),
     pending |-> Opt(S.current_high_start, p),
     history |-> Get(S.high_duration_history, p, <<>>)]

\* The edges fed to the tracker for line p since the last reset.
EdgesSinceReset(p) == Len(edge_log[p]) - reset_mark[p]

\* <<t>> for the time t of the most recent rising edge in a log, <<>> when
\* there is none.
LastRise(log) ==
    LET rises == {i \in 1..Len(log) : log[i][2] = 1}
    IN  IF rises = {} THEN <<>>
        ELSE <<log[CHOOSE i \in rises : \A j \in rises : j <= i][3]>>

\* C1: for every monitored line, the transition count, and the
\* 'transitions' field get_pin_status reports, equal the number of edges
\* fed to the tracker for the line since the last reset.
C1_CountEqualsEdges ==
    \A p \in Monitored :
        /\ Get(transition_counts, p, 0) = EdgesSinceReset(p)
        /\ op.name = "get_pin_status" => op.result[p].transitions = EdgesSinceReset(p)

\* A snapshot taken after a reset that followed an edge, with an edge since.
C1_Witness ==
    /\ op.name = "get_pin_status"
    /\ \E p \in Monitored :
          reset_mark[p] >= 1 /\ EdgesSinceReset(p) = 1 /\ op.result[p].transitions = 1

\* C2: reset_counters() leaves every monitored line with count 0 and an
\* empty history, and changes no level, no pending start and no
\* last-transition time.
C2_ResetFrame ==
    [][op'.name = "reset_counters" =>
          /\ \A p \in Monitored :
                /\ Get(transition_counts', p, 0) = 0
                /\ p \in DOMAIN high_duration_history'
                /\ high_duration_history'[p] = <<>>
          /\ pin_states' = pin_states
          /\ current_high_start' = current_high_start
          /\ last_transition_time' = last_transition_time]_vars

\* A reset of a line with two counted edges and a recorded interval, while
\* another line has a pending start.
C2_Witness ==
    /\ op.name = "reset_counters"
    /\ \E p \in Monitored : reset_mark[p] = 2 /\ edge_log[p][2][2] = 0
    /\ current_high_start # EmptyDict

\* r is h restricted to the entries satisfying Keep, order kept: the k-th
\* element of r is the k-th kept element of h.
IsFiltered(r, h, Keep(_)) ==
    LET idx == {i \in 1..Len(h) : Keep(h[i])}
        Kth(k) == CHOOSE i \in idx : Cardinality({j \in idx : j <= i}) = k
    IN  /\ Len(r) = Cardinality(idx)
        /\ \A k \in 1..Len(r) : r[k] = h[Kth(k)]

EntryEnd(entry) == fromisoformat(entry.timestamp)
EntryStart(entry) == fromisoformat(entry.timestamp) - entry.duration

C4_Original_ZeroHoursEmpty ==
    (op.name = "get_pin_history" /\ op.hours = 0) => op.result = <<>>

\* C4 (amended): get_pin_history(line, hours=0) returns the entries recorded
\* at the very clock reading of the call and no other: it is empty exactly
\* when the line has no interval recorded at that instant.
C4_ZeroHoursOnlyCurrentInstant ==
    (op.name = "get_pin_history" /\ op.hours = 0) =>
        LET h == Get(high_duration_history, op.pin, <<>>)
        IN  /\ \A i \in 1..Len(op.result) : op.result[i].timestamp = isoformat(op.time)
            /\ Len(op.result) =
                   Cardinality({i \in 1..Len(h) : h[i].timestamp = isoformat(op.time)})
            /\ (op.result = <<>>) <=>
                   (h = <<>> \/ EntryEnd(h[Len(h)]) < op.time)

\* hours=0 asked at the instant of the tick that recorded an interval.
C4_Witness ==
    /\ op.name = "get_pin_history"
    /\ op.hours = 0
    /\ op.result # <<>>

\* The last edge fed to the tracker for line p is a rising one: its
\* processing is under way or done.
RisingEdgeSeen(p) ==
    edge_log[p] # <<>> /\ edge_log[p][Len(edge_log[p])][2] = 1

\* C5 as claimed: what a get_pin_status call running beside the sampling
\* thread has read about a line never disagrees: not a pending start
\* together with level 0, not level 1 without a pending start on a line
\* whose rising edge is being or has been processed, and no positive
\* current_high_duration without a pending start.
C5_Original_ConsistentSnapshot ==
    /\ (rdr.has_start = <<TRUE>> /\ rdr.level # <<>>) => rdr.level = <<1>>
    /\ (rdr.pc \in {"l162", "l163", "l165"} /\ rdr.has_start = <<FALSE>>
            /\ RisingEdgeSeen(rdr.pin))
           => rdr.entry.state = 0
    /\ (rdr.pc \in {"l160", "l162", "l163", "l165"} /\ rdr.entry.current_high_duration > 0)
           => rdr.has_start = <<TRUE>>

\* C6: no history ever holds more than 1000 entries, and appending to a
\* history of 1000 entries drops exactly its oldest entry: the other 999
\* keep their order, ahead of the new entry.
C6_Evict(p) ==
    LET h == Get(high_duration_history, p, <<>>)
        hn == Get(high_duration_history', p, <<>>)
    IN  (Len(h) = HistoryMaxLen /\ hn # h /\ op'.name = "tick") =>
            /\ Len(hn) = HistoryMaxLen
            /\ \A i \in 1..(HistoryMaxLen - 1) : hn[i] = h[i + 1]
            /\ hn[HistoryMaxLen].timestamp = isoformat(op'.time)

C6_HistoryBounded ==
    /\ [](\A p \in Monitored : Len(Get(high_duration_history, p, <<>>)) <= HistoryMaxLen)
    /\ [][\A p \in Monitored : C6_Evict(p)]_vars

\* A line with more than 1000 completed intervals since its last reset
\* holds exactly 1000 of them.
C6_Witness ==
    \E p \in Monitored :
        /\ reset_mark[p] = 0
        /\ Len(edge_log[p]) >= 2 * HistoryMaxLen + 2
        /\ Len(Get(high_duration_history, p, <<>>)) = HistoryMaxLen
        /\ op.name = "tick"

\* C7: a history changes only by a reset or by appending one entry at a
\* falling edge whose duration is the tick time minus the time of the
\* line's most recent rising edge, and is >= 0; and a rising then a falling
\* edge on a line that began low leave count 2, one entry, no pending start
\* and level 0.
C7_Append(p) ==
    LET h == Get(high_duration_history, p, <<>>)
        hn == Get(high_duration_history', p, <<>>)
        rise == LastRise(edge_log[p])
    IN  (hn # h /\ op'.name # "reset_counters") =>
            /\ op'.name = "tick"
            /\ op'.reads[p] = ReadOk(0)
            /\ Get(pin_states, p, 0) = 1
            /\ rise # <<>>
            /\ hn # <<>>
            /\ hn[Len(hn)].timestamp = isoformat(op'.time)
            /\ hn[Len(hn)].duration = op'.time - rise[1]
            /\ hn[Len(hn)].duration >= 0
            /\ \/ SubSeq(hn, 1, Len(hn) - 1) = h
               \/ Len(h) = HistoryMaxLen /\ SubSeq(hn, 1, Len(hn) - 1) = Tail(h)

C7_Scenario(p) ==
    (/\ reset_mark[p] = 0
     /\ Len(edge_log[p]) = 2
     /\ edge_log[p][1][2] = 1
     /\ edge_log[p][2][2] = 0) =>
        /\ Get(transition_counts, p, 0) = 2
        /\ Get(high_duration_history, p, <<>>) =
               <<[timestamp |-> isoformat(edge_log[p][2][3]),
                  duration |-> edge_log[p][2][3] - edge_log[p][1][3]]>>
        /\ p \notin DOMAIN current_high_start
        /\ pin_states[p] = 0

C7_IntervalsFromEdges ==
    /\ [](\A p \in Monitored : C7_Scenario(p))
    /\ [][\A p \in Monitored : C7_Append(p)]_vars

\* A line that began low rose at one instant and fell at a later one.
C7_Witness ==
    \E p \in Monitored :
        /\ reset_mark[p] = 0
        /\ Len(edge_log[p]) = 2
        /\ edge_log[p][1][2] = 1
        /\ edge_log[p][2][3] > edge_log[p][1][3]
        /\ Len(Get(high_duration_history, p, <<>>)) = 1

\* C8 as claimed: a line has a pending start if and only if its level is 1.
C8_Original_PendingIffHigh ==
    \A p \in Monitored : (p \in DOMAIN current_high_start) <=> (pin_states[p] = 1)

\* C8 (amended): a line with a pending start is at level 1, and a line at
\* level 1 has a pending start unless no edge has been processed for it
\* since construction (it has been high all along).
C8_PendingOnlyIfHigh ==
    \A p \in Monitored :
        /\ p \in DOMAIN current_high_start => pin_states[p] = 1
        /\ (pin_states[p] = 1 /\ p \notin DOMAIN current_high_start) => edge_log[p] = <<>>

\* One line high with a pending start after its edges, another high since
\* construction with none.
C8_Witness ==
    /\ \E p \in Monitored :
          pin_states[p] = 1 /\ p \in DOMAIN current_high_start /\ Len(edge_log[p]) = 2
    /\ \E q \in Monitored :
          pin_states[q] = 1 /\ q \notin DOMAIN current_high_start

\* C9: in a tick where the read of line p fails, everything held about p is
\* as before the tick, every other line ends as it would had the read of p
\* returned a level, and the loop can take its next tick.
C9_Step ==
    op'.name = "tick" =>
        \A p \in Monitored :
            op'.reads[p] = ReadError =>
                /\ LineView(StNext, p) = LineView(St, p)
                /\ edge_log'[p] = edge_log[p]
                /\ \A q \in Monitored \ {p} : \A v \in Levels :
                      LineView(StNext, q) =
                          LineView(ProcessPins(St, pins_to_monitor,
                                               [op'.reads EXCEPT ![p] = ReadOk(v)],
                                               op'.time), q)

C9_ReadErrorSkipsLine ==
    /\ [][C9_Step]_vars
    /\ []((op.name = "tick" /\ ticks < MaxTicks) => ENABLED Tick)

\* A tick in which the first line's read failed while the second line fell
\* and had its interval recorded.
C9_Witness ==
    /\ op.name = "tick"
    /\ op.reads[pins_to_monitor[1]] = ReadError
    /\ \E q \in Monitored :
          /\ op.reads[q] = ReadOk(0)
          /\ Len(edge_log[q]) = 2
          /\ Len(Get(high_duration_history, q, <<>>)) = 1

\* The requested lines whose initialisation succeeds, in the requested order.
Accepted == SelectSeq(ctor.requested, LAMBDA p : p \notin ctor.fails)

\* C10 as claimed: whichever requested lines fail to initialise, the
\* constructor returns normally, and then monitors exactly the requested
\* lines that initialised, each with a level and a last-transition time.
C10_Original_SetupTolerant ==
    ctor.pc # "setup" =>
        /\ ctor.pc = "done"
        /\ pins_to_monitor = Accepted
        /\ \A p \in Elems(Accepted) :
              p \in DOMAIN pin_states /\ p \in DOMAIN last_transition_time

\* ---- C11
\* The file is missing, or what it holds does not parse to a configuration.
MissingOrMalformed ==
    \/ config_file.kind \in {"missing", "invalid_json"}
    \/ config_file.kind = "json" /\ config_file.content.type # "object"

\* C11 (as stated): loading the configuration never makes startup fail: with
\* a missing or malformed file the constructor does not raise, and it goes
\* on with the default configuration (lines 2..27, interval 0.1 s, history
\* 60 minutes, no labels).
C11_Original_ConfigNeverFails ==
    MissingOrMalformed =>
        /\ ctor.pc # "raised"
        /\ ctor.pc = "setup" =>
              /\ pins_to_monitor = DefaultPins
              /\ update_interval = DefaultInterval
              /\ history_duration = DefaultHistoryMinutes
              /\ pin_labels = EmptyDict

\* ---- C12
\* The notifications delivered for line p, in order.
NotifiedFor(p) == SelectSeq(notified, LAMBDA n : n.line = p)

\* C12 (as stated): every edge the sampling loop processes is delivered to
\* the state-change listener as a notification {line, old level, new level}
\* before the loop moves on (and is then published as a snapshot): after
\* every tick, the notifications for a line are its edges, one for one.
C12_Original_EdgeNotified ==
    \A p \in Monitored :
        /\ Len(NotifiedFor(p)) = Len(edge_log[p])
        /\ \A k \in 1..Len(edge_log[p]) :
              /\ NotifiedFor(p)[k].old = edge_log[p][k][1]
              /\ NotifiedFor(p)[k].new = edge_log[p][k][2]

\* ---- C13
\* A publish has been started and does not return.
PublishInProgress == hb.pc \in {"l198", "l205"} /\ sink = "blocked"

PastGpioPart == hb.pc \in {"l203", "l205", "l209", "l214"}

EmitFailed == op.name = "emit_failed"
GpioPublished == op.name = "emit" /\ op.event = "gpio_update"

\* C15: a publish that raises ends neither publishing nor sampling: if the
\* sink works from some time on, every failed publish is followed by a
\* 'gpio_update' publish; the heartbeat loop never ends; and after a failed
\* publish the sampling loop can still take a tick.
C15_PublishesAgain ==
    /\ <>[](sink = "ok") => [](EmitFailed => <>GpioPublished)
    /\ [](hb.pc # "done")
    /\ []((EmitFailed /\ ticks < MaxTicks) => ENABLED Tick)

\* A 'gpio_update' has been published after an emit had raised.
C15_Witness == GpioPublished /\ hb.failed

\* ---- C16
\* stop_monitoring() has returned and start_monitoring() has not been called
\* since.
Stopped == ~monitoring /\ caller.pc = "idle"

\* C16: with start and stop called one after the other, at most one sampling
\* loop is running at any time; start_monitoring() on a running monitor
\* returns at once, creating no thread and changing nothing; and
\* stop_monitoring() with no loop running does not wait at the join.
C16_StartStopIdempotent ==
    /\ [](Cardinality(LiveLoops) <= 1)
    /\ [][(caller.pc = "s85" /\ monitoring /\ caller' # caller) =>
            /\ caller'.pc = "idle"
            /\ loops' = loops
            /\ monitor_thread' = monitor_thread
            /\ monitoring' = monitoring
            /\ StNext = St]_vars
    /\ []((caller.pc = "p96" /\ LiveLoops = {}) => ENABLED Stop96)

\* start_monitoring() has returned without starting anything, the one loop
\* still running.
C16_Witness ==
    /\ op.name = "return"
    /\ op.method = "start_monitoring"
    /\ ~op.started
    /\ Cardinality(LiveLoops) = 1

\* ---- C17
\* C17: once the flag is cleared every sampling loop ends; no tick begins
\* while the flag is cleared; and once stop_monitoring() has returned no
\* loop is left and the monitor's maps no longer change.
C17_LoopStops ==
    /\ [](~monitoring => <>(LiveLoops = {}))
    /\ [][~monitoring => ticks' = ticks]_vars
    /\ [](Stopped => LiveLoops = {})
    /\ [][Stopped => StNext = St]_vars

\* A loop that was started and has sampled has ended, stop_monitoring()
\* having returned.
C17_Witness ==
    /\ Stopped
    /\ op.name = "return"
    /\ op.method = "stop_monitoring"
    /\ ticks > 0
    /\ Len(loops) > 0
    /\ LiveLoops = {}

\* ---- C18
\* C18 (as stated): get_pin_status() is a pure read: a call leaves the five
\* maps as they were, so that get_transition_summary() and get_pin_history()
\* return after the call what they would have returned before it.
C18_Original_StatusIsPureRead ==
    [][op'.name = "get_pin_status" =>
          /\ StNext = St
          /\ get_transition_summary(StNext) = get_transition_summary(St)
          /\ \A pin \in AllPins, hours \in HoursTried :
                get_pin_history(StNext, pin, hours, now)
                    = get_pin_history(St, pin, hours, now)]_vars

\* ---- C19
\* C19 (as stated): get_transition_summary() returns one entry for every
\* monitored line, holding the line's count of edges since startup or the
\* last reset (0 when there was none), the 'transitions' value of
\* get_pin_status() in the same state.
C19_Original_SummaryCoversEveryLine ==
    op.name = "get_transition_summary" =>
        /\ DOMAIN op.result = Monitored
        /\ \A p \in Monitored :
              /\ Get(op.result, p, 0) = EdgesSinceReset(p)
              /\ Get(op.result, p, 0) = get_pin_status(St, pins_to_monitor, now)[p].transitions

\* ---- C20
\* C20 (as stated): in a snapshot, the current_high_duration of a line
\* reported high is the snapshot's time minus the line's pending start,
\* which exists; that of a line reported low is 0.
C20_Original_DurationFromPendingStart ==
    op.name = "get_pin_status" =>
        \A p \in DOMAIN op.result :
            /\ op.result[p].state = 1 =>
                  /\ p \in DOMAIN current_high_start
                  /\ op.result[p].current_high_duration
                         = op.time - Get(current_high_start, p, 0)
            /\ op.result[p].state = 0 => op.result[p].current_high_duration = 0

\* ---- C21
\* The line p was reset while high with a pending start, and has fallen
\* since: its log ends with a rising edge, the reset, and a falling edge.
ResetWhileHighThenFell(p) ==
    LET n == Len(edge_log[p])
    IN  /\ n >= 2
        /\ reset_mark[p] = n - 1
        /\ edge_log[p][n - 1][2] = 1
        /\ edge_log[p][n][2] = 0

\* C21: when reset_counters() is called while a line is high with a pending
\* start recorded at t_rise, then at the line's next falling edge, at
\* t_fall, the line's history is exactly one entry, of duration
\* t_fall - t_rise, and the line's transition count is 1.
C21_IntervalSurvivesReset ==
    \A p \in Monitored :
        ResetWhileHighThenFell(p) =>
            LET n == Len(edge_log[p])
                t_rise == edge_log[p][n - 1][3]
                t_fall == edge_log[p][n][3]
            IN  /\ Get(high_duration_history, p, <<>>) =
                       <<[timestamp |-> isoformat(t_fall), duration |-> t_fall - t_rise]>>
                /\ Get(transition_counts, p, 0) = 1
                /\ p \notin DOMAIN current_high_start

\* A line rose, was reset one clock unit later while still high, and fell
\* another unit later: the recorded interval spans the reset.
C21_Witness ==
    \E p \in Monitored :
        /\ ResetWhileHighThenFell(p)
        /\ op.name = "tick"
        /\ op.reads[p] = ReadOk(0)
        /\ edge_log[p][Len(edge_log[p])][3] - edge_log[p][Len(edge_log[p]) - 1][3] = 2
        /\ Len(Get(high_duration_history, p, <<>>)) = 1

\* ---- C22
\* The line p is high and has no pending start.
HighWithoutStart(p) ==
    Get(pin_states, p, 0) = 1 /\ p \notin DOMAIN current_high_start

\* C22: a falling edge on a line that has no pending start appends no
\* history entry and raises no error: the tick goes through, the level
\* becomes 0, the transition count grows by 1 and the last-transition time
\* is the tick's time.
C22_Step ==
    op'.name = "tick" =>
        \A p \in Monitored :
            (HighWithoutStart(p) /\ op'.reads[p] = ReadOk(0)) =>
                /\ Opt(high_duration_history', p) = Opt(high_duration_history, p)
                /\ pin_states'[p] = 0
                /\ Get(transition_counts', p, 0) = Get(transition_counts, p, 0) + 1
                /\ Opt(last_transition_time', p) = <<op'.time>>
                /\ p \notin DOMAIN current_high_start'

C22_FallWithoutStart ==
    /\ [][C22_Step]_vars
    /\ [](\A p \in Monitored :
            (HighWithoutStart(p) /\ monitoring /\ ticks < MaxTicks) =>
                ENABLED (Tick /\ op'.reads[p] = ReadOk(0)))

\* A line high since construction fell at a tick after the clock had moved:
\* one counted edge, nothing recorded.
C22_Witness ==
    \E p \in Monitored :
        /\ op.name = "tick"
        /\ op.time > 0
        /\ edge_log[p] = <<<<1, 0, op.time>>>>
        /\ reset_mark[p] = 0
        /\ Get(transition_counts, p, 0) = 1
        /\ Get(high_duration_history, p, <<>>) = <<>>
        /\ pin_states[p] = 0

\* ---- C23
\* The keys and values the five maps hold for one line.
LineEntries(S, p) ==
    [level |-> Opt(S.pin_states, p),
     count |-> Opt(S.transition_counts, p),
     last |-> Opt(S.last_transition_time, p),
     pending |-> Opt(S.current_high_start, p),
     history |-> Opt(S.high_duration_history, p)]

\* C23: a tick in which the value read for a line equals its stored level
\* leaves the line's level, transition count, last-transition time, pending
\* start and history as they were, however many such ticks follow one another.
C23_SameLevelChangesNothing ==
    [][op'.name = "tick" =>
          \A p \in Monitored :
              op'.reads[p] = ReadOk(Get(pin_states, p, 0)) =>
                  /\ LineEntries(StNext, p) = LineEntries(St, p)
                  /\ edge_log'[p] = edge_log[p]]_vars

\* A line that rose at one tick is read high again at a later tick, its
\* pending start still the time of the rise.
C23_Witness ==
    \E p \in Monitored :
        /\ op.name = "tick"
        /\ op.reads[p] = ReadOk(1)
        /\ Len(edge_log[p]) = 1
        /\ edge_log[p][1][2] = 1
        /\ edge_log[p][1][3] < op.time
        /\ Opt(current_high_start, p) = <<edge_log[p][1][3]>>
        /\ Get(transition_counts, p, 0) = 1

\* ---- C24
\* One reset_counters() call and one iteration of the sampling loop, run
\* against each other, have both finished.
ResetAndTickDone ==
    /\ mon.pc = "loop"
    /\ ticks = 1
    /\ rst.pc = "idle"
    /\ rst.calls = 1

\* C24 (as stated): when reset_counters() interleaves with the sampling
\* loop processing one edge on a line, then once both have finished the
\* line's count is 0 or 1, never the pre-reset count plus 1: the reset is
\* not lost.
C24_Original_ResetNotLost ==
    ResetAndTickDone =>
        \A p \in Monitored : Get(transition_counts, p, 0) \in {0, 1}

\* ---- C25
\* C25 (as stated): a query called from another thread while the sampling
\* loop is processing edges always returns a result and never fails; in
\* particular get_pin_status() never reads current_high_start[pin] after
\* the falling-edge step has deleted the entry between the membership test
\* and the read.
C25_Original_QueriesNeverFail == rdr.pc # "raised"

\* ---- C26
\* C26 (as stated): in every state a query can observe, also in the middle
\* of a reset_counters() call that runs against sampling and snapshots, a
\* line's history has at most as many entries as the line's transition
\* count; and no snapshot shows transitions = 0 with a non-empty history.
C26_Original_HistoryBackedByCount ==
    /\ \A p \in Monitored :
          Len(Get(high_duration_history, p, <<>>)) <= Get(transition_counts, p, 0)
    /\ op.name = "get_pin_status" =>
          \A p \in DOMAIN op.result :
              op.result[p].transitions = 0 => op.result[p].high_duration_history = <<>>

====
